---- MODULE Spec2Model ----
\* Thumbnail cache and generation scheduling of the gallery server (src/main.go):
\* handleThumbnail, queueAndWaitForThumbnail, generateThumbnail and the two
\* worker loops, as one state machine over request goroutines and workers.
EXTENDS Integers, Sequences, FiniteSets, TLC

\* ------------------------------------------------------------------ bounds
\* Number of request goroutines; each issues one request.  One more goroutine
\* (Spare) exists and issues a request only in WideSpec.
NumCallers == 2
\* Capacity of each class queue (main.go:140 sets 250; scaled down so that the
\* queue-full branch of the select is reached).
QueueSize == 1

\* Longest directory part, in segments, of the client paths PathSpec draws.
MaxSegs == 2

\* -------------------------------------------------------- program constants
numImageWorkers == 2
numMovieWorkers == 1

imageExtensions == {".jpg", ".jpeg", ".png", ".heic", ".HEIC", ".arw", ".ARW",
                    ".raw", ".RAW", ".heif", ".HEIF", ".dng", ".DNG"}
movieExtensions == {".mov", ".MOV", ".mp4", ".MP4", ".avi", ".AVI", ".mkv", ".MKV"}

\* strings.ToLower on the extensions that occur in the model.
ToLower(ext) ==
    CASE ext = ".MOV" -> ".mov"
      [] ext = ".JPG" -> ".jpg"
      [] ext = ".PNG" -> ".png"
      [] ext = ".TXT" -> ".txt"
      [] OTHER -> ext

\* A path is a directory (sequence of components) and a base name, kept as
\* the name part and the extension filepath.Ext returns.  Two of the sources
\* differ in their extension only.
Files == { [dir |-> <<"root">>, name |-> <<"photo">>, ext |-> ".jpg"],
           [dir |-> <<"root">>, name |-> <<"photo">>, ext |-> ".png"],
           [dir |-> <<"root">>, name |-> <<"clip">>,  ext |-> ".MOV"],
           [dir |-> <<"root">>, name |-> <<"notes">>, ext |-> ".txt"] }

\* A second source of the movie class, requested only where two sources of
\* one class have to be in generation together.
MoreFiles == { [dir |-> <<"root">>, name |-> <<"trip">>, ext |-> ".mp4"] }

AllFiles == Files \cup MoreFiles

\* A file of the served root whose name starts with a dot.
HiddenFiles == { [dir |-> <<"root">>, name |-> <<".hidden">>, ext |-> ".jpg"] }

\* A file outside the served root.
OutsideFiles == { [dir |-> <<"etc">>, name |-> <<"passwd">>, ext |-> ".txt"] }

NoPath == [dir |-> <<>>, name |-> <<>>, ext |-> ""]

\* Mutation: a thumbnail named after the source without its extension.
getThumbnailPathNoExt(imagePath) ==
    [dir  |-> Append(imagePath.dir, ".small"),
     name |-> imagePath.name,
     ext  |-> ".jpg"]

\* getThumbnailPath: <dir>/.small/<base>.jpg, the base keeping its extension.
getThumbnailPath(imagePath) ==
    [dir  |-> Append(imagePath.dir, ".small"),
     name |-> Append(imagePath.name, imagePath.ext),
     ext  |-> ".jpg"]

\* The class the extension checks of lines 532-541 and 493-520 select.
MediaClass(imagePath) ==
    LET ext == ToLower(imagePath.ext)
    IN  IF ext \in movieExtensions THEN "movie"
        ELSE IF ext \in imageExtensions THEN "image"
        ELSE "unsupported"

\* ------------------------------------------------------------- client paths
\* s.rootDir, absolute and clean (filepath.Abs, 127).
rootDir == <<"root">>

\* The directories that exist.
Dirs == { rootDir }

\* A client path as a handler receives it: whether it starts with a slash,
\* its directory segments ("." and ".." among them) and its base name; a
\* path that names a directory has the empty base name.  The empty string
\* has neither segments nor a base name.
IsEmpty(rawPath) == rawPath.segs = <<>> /\ rawPath.name = <<>>

\* filepath.Clean on the segments: "." is dropped, ".." removes the segment
\* before it; at the start ".." is dropped in a rooted path and kept in a
\* relative one.
RECURSIVE CleanSegs(_, _, _)
CleanSegs(segs, out, rooted) ==
    IF segs = <<>> THEN out
    ELSE LET s == Head(segs)
             next == IF s = "." THEN out
                     ELSE IF s # ".." THEN Append(out, s)
                     ELSE IF out # <<>> /\ out[Len(out)] # ".."
                          THEN SubSeq(out, 1, Len(out) - 1)
                     ELSE IF rooted THEN out
                     ELSE Append(out, "..")
         IN  CleanSegs(Tail(segs), next, rooted)

Clean(p) == [p EXCEPT !.segs = CleanSegs(p.segs, <<>>, p.rooted)]

\* filepath.Join(s.rootDir, path): Clean of the concatenation, which is rooted
\* because rootDir is.
Join(root, p) ==
    [dir |-> CleanSegs(root \o p.segs, <<>>, TRUE), name |-> p.name, ext |-> p.ext]

\* The fullPath the four handlers build (201-210, 289-300, 345-356, 449-458).
FullPath(rawPath) == Join(rootDir, Clean(rawPath))

\* Number of leading components two directories share.
RECURSIVE CommonLen(_, _)
CommonLen(a, b) ==
    IF a = <<>> \/ b = <<>> \/ Head(a) # Head(b) THEN 0
    ELSE 1 + CommonLen(Tail(a), Tail(b))

\* filepath.Rel(base, targ) for clean absolute paths: one ".." for every
\* component of base below the shared prefix, then the rest of targ.  The
\* base name of targ follows the result and is never ".." here.
Rel(base, targ) ==
    LET n == CommonLen(base, targ)
    IN  [i \in 1..(Len(base) - n) |-> ".."] \o SubSeq(targ, n + 1, Len(targ))

\* Mutation: a handler without the security check.
NeverDenied(fullPath) == FALSE

\* The security check (213-214, 303-304, 359-360, 461-462):
\* strings.HasPrefix(relPath, "..").
AccessDenied(fullPath) ==
    LET relPath == Rel(rootDir, fullPath.dir)
    IN  relPath # <<>> /\ relPath[1] = ".."

\* The client path that names a file under the root.
ClientPath(f) ==
    [rooted |-> FALSE, segs |-> SubSeq(f.dir, Len(rootDir) + 1, Len(f.dir)),
     name |-> f.name, ext |-> f.ext]

\* ----------------------------------------------------------------- processes
Callers == { <<"caller", i>> : i \in 1..(NumCallers + 1) }
Spare == <<"caller", NumCallers + 1>>
ImageWorkers == { <<"image", i>> : i \in 0..(numImageWorkers - 1) }
MovieWorkers == { <<"movie", i>> : i \in 0..(numMovieWorkers - 1) }
Workers == ImageWorkers \cup MovieWorkers
Procs == Callers \cup Workers

\* A completion channel is named after the caller whose LoadOrStore made it.
NoChan == <<"none", 0>>

\* The thumbnail paths of the sources: keys of pendingThumbs and of the cache.
Keys == { getThumbnailPath(f) : f \in AllFiles }

VARIABLES
    pc,                   \* position of each goroutine
    path,                 \* fullPath of a request / imagePath of a worker
    done,                 \* the channel a caller got from LoadOrStore
    err,                  \* what generateThumbnail returned to the goroutine
    result,               \* how a request ended
    loaded,               \* the channel a worker's LoadAndDelete returned
    pendingThumbs,        \* sync.Map: thumbnail path -> channel (NoChan: no entry)
    closed,               \* channels that have been closed
    imageThumbnailQueue,
    movieThumbnailQueue,
    cache,                \* thumbnail files that exist on disk
    sources,              \* source files that exist on disk
    queueSize,            \* capacity of each class queue, set in main (140)
    invoked,              \* history: Transcoder runs started, per source
    failed,               \* history: sources with a failed generation attempt
    late,                 \* history: a source was requested again after a
                          \* request for it had returned
    partial,              \* thumbnail files on disk that are not yet complete
    atomicWrite,          \* the Transcoder's output appears only when complete
    listing               \* handleList's entries (220) and the files (227) of
                          \* its response

vars == <<pc, path, done, err, result, loaded, pendingThumbs, closed,
          imageThumbnailQueue, movieThumbnailQueue, cache, sources, queueSize,
          invoked, failed, late, partial, atomicWrite, listing>>

\* The state after main has built the server and started the workers: the
\* request goroutines in active have yet to issue their request, the queues
\* have one of the given capacities, and the installed ffmpeg and vips write
\* their output in one of the given ways.
InitWriting(active, capacities, writes) ==
    /\ pc = [p \in Procs |-> IF p \in active THEN "idle"
                             ELSE IF p \in Callers THEN "done" ELSE "dequeue"]
    /\ path = [p \in Procs |-> NoPath]
    /\ done = [c \in Callers |-> NoChan]
    /\ err = [p \in Procs |-> "none"]
    /\ result = [c \in Callers |-> "none"]
    /\ loaded = [w \in Workers |-> NoChan]
    /\ pendingThumbs = [k \in Keys |-> NoChan]
    /\ closed = {}
    /\ imageThumbnailQueue = << >>
    /\ movieThumbnailQueue = << >>
    /\ cache = {}
    /\ sources = AllFiles \cup OutsideFiles \cup HiddenFiles
    /\ queueSize \in capacities
    /\ invoked = [f \in AllFiles |-> 0]
    /\ failed = {}
    /\ late = FALSE
    /\ partial = {}
    /\ atomicWrite \in writes
    /\ listing = [c \in Callers |-> [entries |-> {}, files |-> {}]]

\* The same with a Transcoder whose output appears only when complete.
InitWith(active, capacities) == InitWriting(active, capacities, {TRUE})

Init == InitWith(Callers \ {Spare}, {QueueSize})

\* Mutation: a stat of the thumbnail that never finds it.
StatAlwaysMisses(thumbnailPath) == FALSE

\* ------------------------------------------------------------------ helpers
\* os.Stat(thumbnailPath) of handleThumbnail (319) and of the waiter (560).
StatThumbnail(thumbnailPath) == thumbnailPath \in cache \cup partial

\* os.Stat(fullPath) of the handlers (310, 366, 468) finds a file or a
\* directory.
Exists(fullPath) ==
    \/ fullPath \in sources
    \/ fullPath.name = <<>> /\ fullPath.dir \in Dirs

\* Mutation: generateThumbnail without its existence check.
GenNeverExists(imagePath) == FALSE

\* The existence check that opens generateThumbnail (482-485).
GenAlreadyExists(imagePath) == getThumbnailPath(imagePath) \in cache \cup partial

\* Mutation: a Store that never finds the entry another caller stored.
AlwaysStores(thumbnailPath) == FALSE

\* LoadOrStore's second result: an entry for the key is already in the map.
alreadyGenerating(thumbnailPath) == pendingThumbs[thumbnailPath] # NoChan

\* The queue the starter routes to (535-538), and the one a worker ranges over.
QueueOf(class) ==
    IF class = "movie" THEN movieThumbnailQueue ELSE imageThumbnailQueue

\* Mutation: one capacity shared by the two queues.
CanEnqueueShared(class) ==
    Len(imageThumbnailQueue) + Len(movieThumbnailQueue) < queueSize

\* Mutation: a send that never finds the queue full.
SendNeverBlocks(class) == TRUE

\* The non-blocking send of the select at 544-545 succeeds.
CanEnqueue(class) == Len(QueueOf(class)) < queueSize

\* Where generateThumbnail returns to: the fallback branch (550) on a request
\* goroutine, the completion step (580) on a worker.
AfterGenerate(p) == IF p \in Callers THEN "fb_close" ELSE "LoadAndDelete"

\* ---------------------------------------------------------- handleThumbnail
\* lines 275-328: "Path required" for the empty path; the security check; 404
\* when the source does not exist; then the handler's existence check of the
\* thumbnail: serve it on a hit, else call queueAndWaitForThumbnail.
handleThumbnail(c, rawPath) ==
    LET fullPath == FullPath(rawPath)
        Return(r) == /\ pc' = [pc EXCEPT ![c] = "done"]
                     /\ result' = [result EXCEPT ![c] = r]
    IN  /\ pc[c] = "idle"
        /\ IF IsEmpty(rawPath)
           THEN Return("badrequest") /\ UNCHANGED <<path, late>>
           ELSE IF AccessDenied(fullPath)
           THEN /\ Return("denied")
                /\ path' = [path EXCEPT ![c] = fullPath]
                /\ UNCHANGED late
           ELSE IF ~Exists(fullPath)
           THEN /\ Return("nofile")
                /\ path' = [path EXCEPT ![c] = fullPath]
                /\ UNCHANGED late
           ELSE /\ path' = [path EXCEPT ![c] = fullPath]
                /\ late' = (late \/ \E d \in Callers :
                                        pc[d] = "done" /\ path[d] = fullPath)
                /\ IF StatThumbnail(getThumbnailPath(fullPath))
                   THEN Return("ok")
                   ELSE /\ pc' = [pc EXCEPT ![c] = "LoadOrStore"]
                        /\ UNCHANGED result
        /\ UNCHANGED <<done, err, loaded, pendingThumbs, closed,
                       imageThumbnailQueue, movieThumbnailQueue, cache,
                       invoked, failed, sources, queueSize, partial, atomicWrite, listing>>

\* ------------------------------------------ handleList, handlePreview, handleStatic
\* Mutation: a prefix test that finds no name hidden.
NoDotPrefix(name) == FALSE

\* strings.HasPrefix(entry.Name(), ".") (231), on the names that occur.
HasDotPrefix(name) ==
    CASE name = ".small"  -> TRUE
      [] name = ".hidden" -> TRUE
      [] OTHER -> FALSE

\* The directory holds a .small subdirectory: generateThumbnail has made it
\* (488) for a thumbnail that exists or for a Transcoder run it started.
SmallDir(dir) ==
    \E f \in AllFiles :
        /\ f.dir = dir
        /\ getThumbnailPath(f) \in cache \cup partial \/ invoked[f] > 0

\* os.ReadDir(fullPath) (220): the source files of the directory and its
\* .small subdirectory.
ReadDir(dir) ==
    { [name |-> f.name, ext |-> f.ext, isDir |-> FALSE] :
        f \in { g \in sources : g.dir = dir } }
    \cup IF SmallDir(dir)
         THEN { [name |-> <<".small">>, ext |-> "", isDir |-> TRUE] }
         ELSE {}

\* The FileInfo of an entry (241-264): a thumbnail URL for the image and
\* movie extensions.
FileInfo(entry) ==
    [name |-> entry.name, ext |-> entry.ext, isDir |-> entry.isDir,
     thumbnail |-> MediaClass(entry) # "unsupported"]

\* lines 194-273: the empty path is "/"; the security check; os.ReadDir; the
\* entries whose name does not start with "." make the response.
handleList(c, rawPath) ==
    LET fullPath == FullPath(rawPath)
        listed == /\ ~AccessDenied(fullPath)
                  /\ fullPath.name = <<>> /\ fullPath.dir \in Dirs
    IN  /\ pc[c] = "idle"
        /\ pc' = [pc EXCEPT ![c] = "done"]
        /\ path' = [path EXCEPT ![c] = fullPath]
        /\ result' = [result EXCEPT ![c] =
                        IF AccessDenied(fullPath) THEN "denied"
                        ELSE IF listed THEN "listed"
                        ELSE "listerr"]
        /\ listing' = [listing EXCEPT ![c] =
                         IF listed
                         THEN LET entries == ReadDir(fullPath.dir)
                              IN  [entries |-> entries,
                                   files |-> { FileInfo(e) :
                                                 e \in { d \in entries :
                                                           ~HasDotPrefix(d.name[1]) } }]
                         ELSE @]
        /\ UNCHANGED <<done, err, loaded, pendingThumbs, closed,
                       imageThumbnailQueue, movieThumbnailQueue, cache,
                       invoked, failed, late, sources, queueSize, partial,
                       atomicWrite>>

\* lines 331-379: "Path required"; the security check; 404; the extension
\* check; then the preview is streamed.
handlePreview(c, rawPath) ==
    LET fullPath == FullPath(rawPath)
    IN  /\ pc[c] = "idle"
        /\ pc' = [pc EXCEPT ![c] = "done"]
        /\ path' = [path EXCEPT ![c] = IF IsEmpty(rawPath) THEN NoPath ELSE fullPath]
        /\ result' = [result EXCEPT ![c] =
                        IF IsEmpty(rawPath) THEN "badrequest"
                        ELSE IF AccessDenied(fullPath) THEN "denied"
                        ELSE IF ~Exists(fullPath) THEN "nofile"
                        ELSE IF MediaClass(fullPath) = "unsupported" THEN "badtype"
                        ELSE "preview"]
        /\ UNCHANGED <<done, err, loaded, pendingThumbs, closed,
                       imageThumbnailQueue, movieThumbnailQueue, cache,
                       invoked, failed, late, sources, queueSize, partial, atomicWrite, listing>>

\* lines 441-475: "Path required"; the security check; 404; http.ServeFile.
handleStatic(c, rawPath) ==
    LET fullPath == FullPath(rawPath)
    IN  /\ pc[c] = "idle"
        /\ pc' = [pc EXCEPT ![c] = "done"]
        /\ path' = [path EXCEPT ![c] = IF IsEmpty(rawPath) THEN NoPath ELSE fullPath]
        /\ result' = [result EXCEPT ![c] =
                        IF IsEmpty(rawPath) THEN "badrequest"
                        ELSE IF AccessDenied(fullPath) THEN "denied"
                        ELSE IF ~Exists(fullPath) THEN "nofile"
                        ELSE "static"]
        /\ UNCHANGED <<done, err, loaded, pendingThumbs, closed,
                       imageThumbnailQueue, movieThumbnailQueue, cache,
                       invoked, failed, late, sources, queueSize, partial, atomicWrite, listing>>

\* ------------------------------------------------- queueAndWaitForThumbnail
\* pendingThumbs.LoadOrStore(thumbnailPath, make(chan struct{})) (527-530).
LoadOrStore(c) ==
    LET thumbnailPath == getThumbnailPath(path[c])
    IN  /\ pc[c] = "LoadOrStore"
        /\ IF alreadyGenerating(thumbnailPath)
           THEN /\ done' = [done EXCEPT ![c] = pendingThumbs[thumbnailPath]]
                /\ pc' = [pc EXCEPT ![c] = "wait"]
                /\ UNCHANGED pendingThumbs
           ELSE /\ pendingThumbs' = [pendingThumbs EXCEPT ![thumbnailPath] = c]
                /\ done' = [done EXCEPT ![c] = c]
                /\ pc' = [pc EXCEPT ![c] = "route"]
        /\ UNCHANGED <<path, err, result, loaded, closed, imageThumbnailQueue,
                       movieThumbnailQueue, cache, invoked, failed, late,
                   sources, queueSize, partial, atomicWrite, listing>>

\* Mutation: a starter that gives up with an error when its queue is full.
RouteDropsWhenFull(c) ==
    LET class == MediaClass(path[c])
    IN  /\ pc[c] = "route"
        /\ IF class # "unsupported" /\ CanEnqueue(class)
           THEN /\ IF class = "movie"
                   THEN /\ movieThumbnailQueue' = Append(movieThumbnailQueue, path[c])
                        /\ UNCHANGED imageThumbnailQueue
                   ELSE /\ imageThumbnailQueue' = Append(imageThumbnailQueue, path[c])
                        /\ UNCHANGED movieThumbnailQueue
                /\ pc' = [pc EXCEPT ![c] = "wait"]
                /\ UNCHANGED <<result, done>>
           ELSE /\ pc' = [pc EXCEPT ![c] = "done"]
                /\ result' = [result EXCEPT ![c] =
                                IF class = "unsupported" THEN "unsupported" ELSE "generr"]
                /\ done' = [done EXCEPT ![c] = NoChan]
                /\ UNCHANGED <<imageThumbnailQueue, movieThumbnailQueue>>
        /\ UNCHANGED <<path, err, loaded, pendingThumbs, closed, cache,
                       invoked, failed, late,
                   sources, queueSize, partial, atomicWrite, listing>>

\* The starter's branch (530-548): pick the class queue or return the
\* unsupported-type error; then the select: enqueue, or fall back when full.
Route(c) ==
    LET class == MediaClass(path[c])
    IN  /\ pc[c] = "route"
        /\ IF class = "unsupported"
           THEN /\ pc' = [pc EXCEPT ![c] = "done"]
                /\ result' = [result EXCEPT ![c] = "unsupported"]
                /\ done' = [done EXCEPT ![c] = NoChan]
                /\ UNCHANGED <<imageThumbnailQueue, movieThumbnailQueue>>
           ELSE IF CanEnqueue(class)
           THEN /\ IF class = "movie"
                   THEN /\ movieThumbnailQueue' = Append(movieThumbnailQueue, path[c])
                        /\ UNCHANGED imageThumbnailQueue
                   ELSE /\ imageThumbnailQueue' = Append(imageThumbnailQueue, path[c])
                        /\ UNCHANGED movieThumbnailQueue
                /\ pc' = [pc EXCEPT ![c] = "wait"]
                /\ UNCHANGED <<result, done>>
           ELSE /\ pc' = [pc EXCEPT ![c] = "gen_stat"]
                /\ UNCHANGED <<result, done, imageThumbnailQueue, movieThumbnailQueue>>
        /\ UNCHANGED <<path, err, loaded, pendingThumbs, closed, cache,
                       invoked, failed, late,
                   sources, queueSize, partial, atomicWrite, listing>>

\* Mutation: a fallback that returns without closing its channel.
FallbackSkipsClose(c) ==
    /\ pc[c] = "fb_close"
    /\ pc' = [pc EXCEPT ![c] = "fb_delete"]
    /\ UNCHANGED <<path, done, err, result, loaded, pendingThumbs, closed,
                   imageThumbnailQueue, movieThumbnailQueue, cache, invoked,
                   failed, late, sources, queueSize, partial, atomicWrite, listing>>

\* The fallback's close(done) (550).
FallbackClose(c) ==
    /\ pc[c] = "fb_close"
    /\ closed' = closed \cup {done[c]}
    /\ pc' = [pc EXCEPT ![c] = "fb_delete"]
    /\ UNCHANGED <<path, done, err, result, loaded, pendingThumbs,
                   imageThumbnailQueue, movieThumbnailQueue, cache, invoked,
                   failed, late,
                   sources, queueSize, partial, atomicWrite, listing>>

\* The fallback's pendingThumbs.Delete(thumbnailPath) and return err (551-552).
FallbackDelete(c) ==
    /\ pc[c] = "fb_delete"
    /\ pendingThumbs' = [pendingThumbs EXCEPT ![getThumbnailPath(path[c])] = NoChan]
    /\ result' = [result EXCEPT ![c] = IF err[c] = "nil" THEN "ok" ELSE "generr"]
    /\ pc' = [pc EXCEPT ![c] = "done"]
    /\ done' = [done EXCEPT ![c] = NoChan]
    /\ err' = [err EXCEPT ![c] = "none"]
    /\ UNCHANGED <<path, loaded, closed, imageThumbnailQueue,
                   movieThumbnailQueue, cache, invoked, failed, late,
                   sources, queueSize, partial, atomicWrite, listing>>

\* Mutation: a waiter that takes the closed channel for success.
WakeWithoutRecheck(c) ==
    /\ pc[c] = "wait"
    /\ done[c] \in closed
    /\ result' = [result EXCEPT ![c] = "ok"]
    /\ pc' = [pc EXCEPT ![c] = "done"]
    /\ done' = [done EXCEPT ![c] = NoChan]
    /\ UNCHANGED <<path, err, loaded, pendingThumbs, closed,
                   imageThumbnailQueue, movieThumbnailQueue, cache, invoked,
                   failed, late, sources, queueSize, partial, atomicWrite, listing>>

\* case <-done (558-563): the channel is closed; re-check the thumbnail.
Wake(c) ==
    /\ pc[c] = "wait"
    /\ done[c] \in closed
    /\ result' = [result EXCEPT ![c] =
                    IF StatThumbnail(getThumbnailPath(path[c])) THEN "ok" ELSE "notfound"]
    /\ pc' = [pc EXCEPT ![c] = "done"]
    /\ done' = [done EXCEPT ![c] = NoChan]
    /\ UNCHANGED <<path, err, loaded, pendingThumbs, closed,
                   imageThumbnailQueue, movieThumbnailQueue, cache, invoked,
                   failed, late,
                   sources, queueSize, partial, atomicWrite, listing>>

\* Mutation: a timeout that also removes the key's registry entry.
TimeoutTearsDown(c) ==
    /\ pc[c] = "wait"
    /\ result' = [result EXCEPT ![c] = "timeout"]
    /\ pc' = [pc EXCEPT ![c] = "done"]
    /\ done' = [done EXCEPT ![c] = NoChan]
    /\ pendingThumbs' = [pendingThumbs EXCEPT ![getThumbnailPath(path[c])] = NoChan]
    /\ UNCHANGED <<path, err, loaded, closed, imageThumbnailQueue,
                   movieThumbnailQueue, cache, invoked, failed, late,
                   sources, queueSize, partial, atomicWrite, listing>>

\* Mutation: a wait without the timer case.
WaitsForever(c) ==
    /\ pc[c] = "wait"
    /\ FALSE
    /\ UNCHANGED vars

\* case <-time.After(30 * time.Second) (564-565).
Timeout(c) ==
    /\ pc[c] = "wait"
    /\ result' = [result EXCEPT ![c] = "timeout"]
    /\ pc' = [pc EXCEPT ![c] = "done"]
    /\ done' = [done EXCEPT ![c] = NoChan]
    /\ UNCHANGED <<path, err, loaded, pendingThumbs, closed,
                   imageThumbnailQueue, movieThumbnailQueue, cache, invoked,
                   failed, late,
                   sources, queueSize, partial, atomicWrite, listing>>

\* -------------------------------------------------------- generateThumbnail
\* Lines 479-490 (and the os.Open of 506-509): return nil when the thumbnail
\* exists; else create the directory and, for an image, open the source;
\* either may fail, and the open of a source that is gone does.
GenStat(p) ==
    /\ pc[p] = "gen_stat"
    /\ IF GenAlreadyExists(path[p])
       THEN /\ err' = [err EXCEPT ![p] = "nil"]
            /\ pc' = [pc EXCEPT ![p] = AfterGenerate(p)]
            /\ UNCHANGED failed
       ELSE \/ /\ MediaClass(path[p]) = "image" => path[p] \in sources
               /\ pc' = [pc EXCEPT ![p] = "gen_run"]
               /\ UNCHANGED <<err, failed>>
            \/ /\ err' = [err EXCEPT ![p] = "err"]
               /\ failed' = failed \cup {path[p]}
               /\ pc' = [pc EXCEPT ![p] = AfterGenerate(p)]
    /\ UNCHANGED <<path, done, result, loaded, pendingThumbs, closed,
                   imageThumbnailQueue, movieThumbnailQueue, cache, invoked, late,
                   sources, queueSize, partial, atomicWrite, listing>>

\* Lines 493-520: the extension picks ffmpeg or vips and cmd.Run starts the
\* Transcoder; any other extension is the unsupported-type error.  ffmpeg
\* opens its input itself: started on a source that is gone it can only fail,
\* which err records until it exits.
GenRun(p) ==
    /\ pc[p] = "gen_run"
    /\ IF MediaClass(path[p]) = "unsupported"
       THEN /\ err' = [err EXCEPT ![p] = "err"]
            /\ pc' = [pc EXCEPT ![p] = AfterGenerate(p)]
            /\ UNCHANGED invoked
       ELSE /\ invoked' = [invoked EXCEPT ![path[p]] = @ + 1]
            /\ pc' = [pc EXCEPT ![p] = "gen_wait"]
            /\ err' = [err EXCEPT ![p] =
                         IF MediaClass(path[p]) = "movie" /\ path[p] \notin sources
                         THEN "err" ELSE @]
    /\ UNCHANGED <<path, done, result, loaded, pendingThumbs, closed,
                   imageThumbnailQueue, movieThumbnailQueue, cache, failed, late,
                   sources, queueSize, partial, atomicWrite, listing>>

\* The tool creates its output file while it is still writing it (the -o
\* argument of vips at 510, the last argument of ffmpeg at 497): possible only
\* with a tool that does not write atomically.
TranscoderCreate(p) ==
    LET thumbnailPath == getThumbnailPath(path[p])
    IN  /\ pc[p] = "gen_wait"
        /\ ~atomicWrite
        /\ err[p] # "err"
        /\ thumbnailPath \notin cache \cup partial
        /\ partial' = partial \cup {thumbnailPath}
        /\ UNCHANGED <<pc, path, done, err, result, loaded, pendingThumbs,
                       closed, imageThumbnailQueue, movieThumbnailQueue, cache,
                       invoked, failed, late, sources, queueSize, atomicWrite, listing>>

\* cmd.Run returns (500-502, 515-517): the thumbnail file is complete, or the
\* tool failed; a tool that writes atomically leaves nothing behind, another
\* may leave or remove what it had written.
TranscoderExit(p) ==
    LET thumbnailPath == getThumbnailPath(path[p])
    IN  /\ pc[p] = "gen_wait"
        /\ \/ /\ err[p] # "err"
              /\ cache' = cache \cup {thumbnailPath}
              /\ partial' = partial \ {thumbnailPath}
              /\ err' = [err EXCEPT ![p] = "nil"]
              /\ UNCHANGED failed
           \/ /\ err' = [err EXCEPT ![p] = "err"]
              /\ failed' = failed \cup {path[p]}
              /\ partial' \in {partial, partial \ {thumbnailPath}}
              /\ UNCHANGED cache
        /\ pc' = [pc EXCEPT ![p] = AfterGenerate(p)]
        /\ UNCHANGED <<path, done, result, loaded, pendingThumbs, closed,
                       imageThumbnailQueue, movieThumbnailQueue, invoked, late,
                       sources, queueSize, atomicWrite, listing>>

\* ------------------------------------------------------------------ workers
\* Mutation: a worker that takes the newest path of its queue.
DequeueNewest(w) ==
    /\ pc[w] = "dequeue"
    /\ IF w \in MovieWorkers
       THEN /\ movieThumbnailQueue # << >>
            /\ path' = [path EXCEPT ![w] =
                          movieThumbnailQueue[Len(movieThumbnailQueue)]]
            /\ movieThumbnailQueue' =
                   SubSeq(movieThumbnailQueue, 1, Len(movieThumbnailQueue) - 1)
            /\ UNCHANGED imageThumbnailQueue
       ELSE /\ imageThumbnailQueue # << >>
            /\ path' = [path EXCEPT ![w] =
                          imageThumbnailQueue[Len(imageThumbnailQueue)]]
            /\ imageThumbnailQueue' =
                   SubSeq(imageThumbnailQueue, 1, Len(imageThumbnailQueue) - 1)
            /\ UNCHANGED movieThumbnailQueue
    /\ pc' = [pc EXCEPT ![w] = "gen_stat"]
    /\ UNCHANGED <<done, err, result, loaded, pendingThumbs, closed, cache,
                   invoked, failed, late, sources, queueSize, partial, atomicWrite, listing>>

\* for imagePath := range queue (572, 593): receive the head of the queue.
Dequeue(w) ==
    /\ pc[w] = "dequeue"
    /\ IF w \in MovieWorkers
       THEN /\ movieThumbnailQueue # << >>
            /\ path' = [path EXCEPT ![w] = Head(movieThumbnailQueue)]
            /\ movieThumbnailQueue' = Tail(movieThumbnailQueue)
            /\ UNCHANGED imageThumbnailQueue
       ELSE /\ imageThumbnailQueue # << >>
            /\ path' = [path EXCEPT ![w] = Head(imageThumbnailQueue)]
            /\ imageThumbnailQueue' = Tail(imageThumbnailQueue)
            /\ UNCHANGED movieThumbnailQueue
    /\ pc' = [pc EXCEPT ![w] = "gen_stat"]
    /\ UNCHANGED <<done, err, result, loaded, pendingThumbs, closed, cache,
                   invoked, failed, late,
                   sources, queueSize, partial, atomicWrite, listing>>

\* Mutation: a worker that completes the entry only after a success.
LoadedOnSuccessOnly(w) ==
    err[w] = "nil" /\ pendingThumbs[getThumbnailPath(path[w])] # NoChan

\* LoadAndDelete's second result (580, 601): the key had an entry.
LoadAndDeleteOk(w) == pendingThumbs[getThumbnailPath(path[w])] # NoChan

\* pendingThumbs.LoadAndDelete(thumbnailPath) (580, 601).
WorkerLoadAndDelete(w) ==
    LET thumbnailPath == getThumbnailPath(path[w])
    IN  /\ pc[w] = "LoadAndDelete"
        /\ IF LoadAndDeleteOk(w)
           THEN /\ loaded' = [loaded EXCEPT ![w] = pendingThumbs[thumbnailPath]]
                /\ pendingThumbs' = [pendingThumbs EXCEPT ![thumbnailPath] = NoChan]
                /\ pc' = [pc EXCEPT ![w] = "close"]
                /\ UNCHANGED <<path, err>>
           ELSE /\ pc' = [pc EXCEPT ![w] = "dequeue"]
                /\ path' = [path EXCEPT ![w] = NoPath]
                /\ err' = [err EXCEPT ![w] = "none"]
                /\ UNCHANGED <<loaded, pendingThumbs>>
        /\ UNCHANGED <<done, result, closed, imageThumbnailQueue,
                       movieThumbnailQueue, cache, invoked, failed, late,
                   sources, queueSize, partial, atomicWrite, listing>>

\* close(doneChan) and the log line (581-586, 602-607); back to the range loop.
WorkerClose(w) ==
    /\ pc[w] = "close"
    /\ closed' = closed \cup {loaded[w]}
    /\ loaded' = [loaded EXCEPT ![w] = NoChan]
    /\ path' = [path EXCEPT ![w] = NoPath]
    /\ err' = [err EXCEPT ![w] = "none"]
    /\ pc' = [pc EXCEPT ![w] = "dequeue"]
    /\ UNCHANGED <<done, result, pendingThumbs, imageThumbnailQueue,
                   movieThumbnailQueue, cache, invoked, failed, late,
                   sources, queueSize, partial, atomicWrite, listing>>

\* ------------------------------------------------------------ specification
Next ==
    \/ \E c \in Callers, f \in Files : handleThumbnail(c, ClientPath(f))
    \/ \E c \in Callers : LoadOrStore(c)
    \/ \E c \in Callers : Route(c)
    \/ \E c \in Callers : FallbackClose(c)
    \/ \E c \in Callers : FallbackDelete(c)
    \/ \E c \in Callers : Wake(c)
    \/ \E c \in Callers : Timeout(c)
    \/ \E p \in Procs : GenStat(p)
    \/ \E p \in Procs : GenRun(p)
    \/ \E p \in Procs : TranscoderExit(p)
    \/ \E w \in Workers : Dequeue(w)
    \/ \E w \in Workers : WorkerLoadAndDelete(w)
    \/ \E w \in Workers : WorkerClose(w)

Spec == Init /\ [][Next]_vars

\* ------------------------------------------------------------- environment
\* A source file is removed from the disk while the server runs.
DeleteSource(f) ==
    /\ f \in sources
    /\ sources' = sources \ {f}
    /\ UNCHANGED <<pc, path, done, err, result, loaded, pendingThumbs, closed,
                   imageThumbnailQueue, movieThumbnailQueue, cache, queueSize,
                   invoked, failed, late, partial, atomicWrite, listing>>

\* The sources requested in the fair specifications: two images, so that a
\* full image queue and the inline fallback occur, and the unsupported one.
LiveFiles == { f \in Files : MediaClass(f) # "movie" }

LiveNext ==
    \/ \E c \in Callers, f \in LiveFiles : handleThumbnail(c, ClientPath(f))
    \/ \E c \in Callers : LoadOrStore(c)
    \/ \E c \in Callers : Route(c)
    \/ \E c \in Callers : FallbackClose(c)
    \/ \E c \in Callers : FallbackDelete(c)
    \/ \E c \in Callers : Wake(c)
    \/ \E c \in Callers : Timeout(c)
    \/ \E p \in Procs : GenStat(p)
    \/ \E p \in Procs : GenRun(p)
    \/ \E p \in Procs : TranscoderExit(p)
    \/ \E w \in Workers : Dequeue(w)
    \/ \E w \in Workers : WorkerLoadAndDelete(w)
    \/ \E w \in Workers : WorkerClose(w)

LiveSpec == Init /\ [][LiveNext]_vars

\* The steps a request goroutine takes once scheduled, the firing of its
\* 30-second timer among them; the return of an inline Transcoder run is
\* kept apart.
CallerRun(c) ==
    \/ LoadOrStore(c) \/ Route(c) \/ GenStat(c) \/ GenRun(c)
    \/ FallbackClose(c) \/ FallbackDelete(c) \/ Wake(c) \/ Timeout(c)

\* The steps of a worker goroutine, the Transcoder's return apart.
WorkerRun(w) ==
    \/ Dequeue(w) \/ GenStat(w) \/ GenRun(w)
    \/ WorkerLoadAndDelete(w) \/ WorkerClose(w)

\* Request goroutines are scheduled and their 30-second timers fire; nothing
\* is assumed of the Transcoder or of the workers.  Spare issues no request
\* here.
CallerFairSpec ==
    /\ LiveSpec
    /\ \A c \in Callers \ {Spare} : WF_vars(CallerRun(c))

\* Workers are scheduled and their Transcoder runs return.
WorkerFairSpec ==
    /\ LiveSpec
    /\ \A w \in Workers : WF_vars(WorkerRun(w) \/ TranscoderExit(w))

\* The image whose deletion SourceSpec follows.
Deletable == { f \in Files : f.ext = ".jpg" }

SourceNext ==
    \/ LiveNext
    \/ \E f \in Deletable : DeleteSource(f)

\* The server while a source file may disappear.
SourceSpec == Init /\ [][SourceNext]_vars

\* The client paths PathSpec draws: up to MaxSegs segments, then a file name
\* or nothing.
RECURSIVE SegSeqs(_)
SegSeqs(n) ==
    IF n = 0 THEN { <<>> }
    ELSE LET shorter == SegSeqs(n - 1)
         IN  shorter \cup { Append(q, s) : q \in shorter, s \in {"..", "etc"} }

RawPaths ==
    { [rooted |-> r, segs |-> q, name |-> b.name, ext |-> b.ext] :
        r \in BOOLEAN, q \in SegSeqs(MaxSegs),
        b \in { [name |-> <<"photo">>, ext |-> ".jpg"],
                [name |-> <<"passwd">>, ext |-> ".txt"],
                [name |-> <<>>, ext |-> ""] } }

\* The four handlers that resolve a client path, on any client path.
PathNext ==
    \/ \E c \in Callers, rawPath \in RawPaths : handleThumbnail(c, rawPath)
    \/ \E c \in Callers, rawPath \in RawPaths : handleList(c, rawPath)
    \/ \E c \in Callers, rawPath \in RawPaths : handlePreview(c, rawPath)
    \/ \E c \in Callers, rawPath \in RawPaths : handleStatic(c, rawPath)

PathSpec == Init /\ [][PathNext]_vars

\* The server with queues of either capacity: the smaller one fills with one
\* path, the larger one holds two.
FifoSpec == InitWith(Callers \ {Spare}, {QueueSize, QueueSize + 1}) /\ [][Next]_vars

\* The server with one more request goroutine.
WideSpec == InitWith(Callers, {QueueSize}) /\ [][LiveNext]_vars

\* Requests for two movies and one image: with the single movie worker busy
\* and the movie queue full, a second movie is generated by its caller.
PoolFiles == { f \in AllFiles : f.ext \in {".MOV", ".mp4", ".jpg"} }

PoolNext ==
    \/ \E c \in Callers, f \in PoolFiles : handleThumbnail(c, ClientPath(f))
    \/ \E c \in Callers : LoadOrStore(c)
    \/ \E c \in Callers : Route(c)
    \/ \E c \in Callers : FallbackClose(c)
    \/ \E c \in Callers : FallbackDelete(c)
    \/ \E c \in Callers : Wake(c)
    \/ \E c \in Callers : Timeout(c)
    \/ \E p \in Procs : GenStat(p)
    \/ \E p \in Procs : GenRun(p)
    \/ \E p \in Procs : TranscoderExit(p)
    \/ \E w \in Workers : Dequeue(w)
    \/ \E w \in Workers : WorkerLoadAndDelete(w)
    \/ \E w \in Workers : WorkerClose(w)

PoolSpec == Init /\ [][PoolNext]_vars

\* Requests served with a Transcoder of either kind.
PartialNext ==
    \/ LiveNext
    \/ \E p \in Procs : TranscoderCreate(p)

PartialSpec ==
    /\ InitWriting(Callers \ {Spare}, {QueueSize}, BOOLEAN)
    /\ [][PartialNext]_vars

\* Directory paths a client may send.
ListPaths == { p \in RawPaths : p.name = <<>> }

\* Thumbnail requests and directory listings together.
ListNext ==
    \/ LiveNext
    \/ \E c \in Callers, rawPath \in ListPaths : handleList(c, rawPath)

ListSpec == Init /\ [][ListNext]_vars

TypeOK ==
    /\ pc \in [Procs -> {"idle", "LoadOrStore", "route", "wait", "done",
                         "gen_stat", "gen_run", "gen_wait", "fb_close",
                         "fb_delete", "dequeue", "LoadAndDelete", "close"}]
    /\ \A p \in Procs : \/ path[p] \in AllFiles \cup {NoPath}
                         \/ (p \in Callers /\ pc[p] \in {"done", "LoadOrStore"})
    /\ done \in [Callers -> Callers \cup {NoChan}]
    /\ err \in [Procs -> {"none", "nil", "err"}]
    /\ result \in [Callers -> {"none", "ok", "unsupported", "notfound",
                               "timeout", "generr", "badrequest", "denied",
                               "nofile", "listed", "listerr", "preview",
                               "badtype", "static"}]
    /\ loaded \in [Workers -> Callers \cup {NoChan}]
    /\ pendingThumbs \in [Keys -> Callers \cup {NoChan}]
    /\ closed \subseteq Callers
    /\ Len(imageThumbnailQueue) <= queueSize
    /\ Len(movieThumbnailQueue) <= queueSize
    /\ cache \subseteq Keys
    /\ sources \subseteq AllFiles \cup OutsideFiles \cup HiddenFiles
    /\ queueSize \in {QueueSize, QueueSize + 1}
    /\ invoked \in [AllFiles -> 0..(NumCallers + 1)]
    /\ failed \subseteq AllFiles
    /\ late \in BOOLEAN
    /\ partial \subseteq Keys
    /\ atomicWrite \in BOOLEAN
    /\ atomicWrite => partial = {}
    /\ \A c \in Callers : listing[c].files \subseteq
                               { FileInfo(e) : e \in listing[c].entries }

\* ------------------------------------------------------------------- claims
Key(p) == getThumbnailPath(path[p])
Supported(f) == MediaClass(f) # "unsupported"
Requests(f) == { c \in Callers : path[c] = f }

\* Occurrences of a key among the paths waiting in the two class queues.
Queued(k) ==
    Cardinality({ i \in 1..Len(imageThumbnailQueue) :
                    getThumbnailPath(imageThumbnailQueue[i]) = k })
    + Cardinality({ i \in 1..Len(movieThumbnailQueue) :
                    getThumbnailPath(movieThumbnailQueue[i]) = k })

\* Workers that hold a dequeued path of the key and have not completed it.
OnWorker(k) ==
    { w \in Workers : Key(w) = k
        /\ pc[w] \in {"gen_stat", "gen_run", "gen_wait", "LoadAndDelete"} }

\* Starters of the key that have stored its entry and not yet queued it, or
\* that generate it inline.
OnCaller(k) ==
    { c \in Callers : Key(c) = k
        /\ pc[c] \in {"route", "gen_stat", "gen_run", "gen_wait", "fb_close",
                      "fb_delete"} }

\* C1: for each artifact key at most one generation is owned by a starter
\* about to queue it, queued, executing on a worker or executing inline in a
\* fallback, and at most one Transcoder run writes the key's artifact.
C1_OneGenerationPerKey ==
    \A k \in Keys :
        /\ Queued(k) + Cardinality(OnWorker(k)) + Cardinality(OnCaller(k)) <= 1
        /\ Cardinality({ p \in Procs : Key(p) = k /\ pc[p] = "gen_wait" }) <= 1

\* Two requests for one source wait on the entry while a worker runs the
\* Transcoder for it.
C1_Witness ==
    \E c \in Callers, d \in Callers, w \in Workers :
        /\ c # d /\ path[c] = path[d] /\ path[w] = path[c]
        /\ pc[c] = "wait" /\ pc[d] = "wait" /\ done[c] = done[d]
        /\ pc[w] = "gen_wait"

\* The requests for f all reached the handler before any of them returned,
\* there are at least two of them, and all have returned.
ConcurrentBatchDone(f) ==
    /\ Supported(f)
    /\ ~late
    /\ Cardinality(Requests(f)) >= 2
    /\ \A c \in Requests(f) : pc[c] = "done"

C3_NoInvocationOnceCached ==
    [][ \A f \in Files :
            getThumbnailPath(f) \in cache => invoked'[f] = invoked[f] ]_vars

\* A second generation of an already generated source has come back from
\* generateThumbnail on a worker without a second Transcoder run: the first
\* generation's channel is closed, none failed, and the registry holds the
\* entry of a later starter.
C3_Witness ==
    \E w \in Workers, d \in Callers :
        /\ pc[w] = "LoadAndDelete" /\ err[w] = "nil"
        /\ path[d] = path[w] /\ d \in closed
        /\ pendingThumbs[Key(w)] \notin {d, NoChan}
        /\ path[w] \notin failed
        /\ invoked[path[w]] = 1
        /\ Key(w) \in cache

\* A caller is inside queueAndWaitForThumbnail.
InQueueAndWait(c) == pc[c] \notin {"idle", "done"}

\* C4 as claimed: with request goroutines scheduled and timers firing, every
\* caller inside queueAndWaitForThumbnail eventually returns.
C4_Original ==
    \A c \in Callers \ {Spare} : InQueueAndWait(c) ~> (pc[c] = "done")

\* C4 amended: every caller inside queueAndWaitForThumbnail eventually
\* returns with one of its results, unless the Transcoder run it makes inline
\* as a fallback starter never returns; no progress of any worker is needed.
\* A caller moves forward only, so this is: time and again every caller is
\* outside queueAndWaitForThumbnail or in its inline Transcoder run.
C4_EveryCallerReturns ==
    /\ [](\A c \in Callers \ {Spare} :
            pc[c] = "done" => result[c] \in {"ok", "notfound", "generr",
                                              "timeout", "unsupported"})
    /\ []<>(\A c \in Callers : ~InQueueAndWait(c) \/ pc[c] = "gen_wait")

\* A caller has returned from a wait by its timer while no worker has moved.
C4_Witness ==
    \E c \in Callers :
        /\ pc[c] = "done" /\ result[c] = "timeout"
        /\ Supported(path[c])
        /\ \A w \in Workers : pc[w] = "dequeue"

\* The starter's path is in its class queue under its registry entry.
Enqueued(c) ==
    /\ path[c] \in Files
    /\ pendingThumbs[Key(c)] = c
    /\ Queued(Key(c)) = 1

\* The path of starter c was enqueued and its channel is not yet closed: its
\* entry is registered while c waits or has timed out, or a worker has
\* removed the entry and holds the channel.
AwaitsClose(c) ==
    /\ c \notin closed
    /\ \/ \E w \in Workers : loaded[w] = c
       \/ /\ path[c] \in Files /\ Supported(path[c])
          /\ pendingThumbs[Key(c)] = c
          /\ pc[c] \in {"wait", "done"}

\* C5: a worker's completion step finds and removes the entry of the key it
\* dequeued and then closes that entry's channel, whatever generateThumbnail
\* returned; with workers scheduled and the Transcoder returning, the channel
\* of every enqueued path is eventually closed.
C5_WorkerAlwaysCompletes ==
    /\ [][ \A w \in Workers :
             /\ ( pc[w] = "LoadAndDelete" /\ pc'[w] # "LoadAndDelete" ) =>
                    /\ pendingThumbs[Key(w)] # NoChan
                    /\ pendingThumbs'[Key(w)] = NoChan
                    /\ loaded'[w] = pendingThumbs[Key(w)]
                    /\ pc'[w] = "close"
             /\ ( pc[w] = "close" /\ pc'[w] # "close" ) =>
                    loaded[w] \in closed' /\ loaded[w] # NoChan ]_vars
    /\ [](\A c \in Callers : Enqueued(c) => AwaitsClose(c))
    /\ []<>(\A c \in Callers : ~AwaitsClose(c))

\* A worker has closed the channel of a generation that failed.
C5_Witness ==
    \E c \in Callers :
        /\ c \in closed
        /\ path[c] \in failed
        /\ Key(c) \notin cache
        /\ pendingThumbs[Key(c)] = NoChan
        /\ \A d \in Callers : pc[d] \notin {"gen_stat", "gen_run", "gen_wait",
                                            "fb_close", "fb_delete"}
        /\ \A d \in Callers : pc[d] = "done" => result[d] # "generr"

\* C6: a starter that finds its class queue full is neither dropped nor
\* queued: it goes on to generate inline, and when that generation returns
\* nil it returns success with the artifact in the cache.
C6_FallbackYieldsArtifact ==
    [][ \A c \in Callers :
          /\ ( /\ pc[c] = "route" /\ pc'[c] # "route"
               /\ Supported(path[c])
               /\ ~CanEnqueue(MediaClass(path[c])) ) =>
                 /\ pc'[c] = "gen_stat"
                 /\ result'[c] = "none"
                 /\ UNCHANGED <<imageThumbnailQueue, movieThumbnailQueue>>
          /\ ( pc[c] = "fb_delete" /\ pc'[c] = "done" /\ err[c] = "nil" ) =>
                 /\ result'[c] = "ok"
                 /\ Key(c) \in cache' ]_vars

\* The image queue holds QueueSize paths, and the starter of one more distinct
\* image has run the Transcoder inline and is about to return success.
C6_Witness ==
    \E c \in Callers :
        /\ pc[c] = "fb_delete" /\ err[c] = "nil"
        /\ MediaClass(path[c]) = "image"
        /\ invoked[path[c]] = 1
        /\ Key(c) \in cache
        /\ Len(imageThumbnailQueue) = QueueSize
        /\ \A i \in 1..Len(imageThumbnailQueue) : imageThumbnailQueue[i] # path[c]

\* C7: the step in which a waiter times out changes only that waiter: the
\* registry, the channels, the queues, the cache and every other goroutine
\* are as before.
C7_TimeoutChangesNothingElse ==
    [][ \A c \in Callers :
          ( pc[c] = "wait" /\ pc'[c] = "done" /\ result'[c] = "timeout" ) =>
            /\ UNCHANGED <<pendingThumbs, closed, imageThumbnailQueue,
                           movieThumbnailQueue, cache, loaded, invoked, failed>>
            /\ \A p \in Procs \ {c} :
                 pc'[p] = pc[p] /\ path'[p] = path[p] /\ err'[p] = err[p]
            /\ \A d \in Callers \ {c} :
                 done'[d] = done[d] /\ result'[d] = result[d] ]_vars

\* A starter has timed out; its entry is still registered, a worker is
\* running the Transcoder for it and another caller still waits on it.
C7_Witness ==
    \E c \in Callers, d \in Callers, w \in Workers :
        /\ pc[c] = "done" /\ result[c] = "timeout"
        /\ pendingThumbs[Key(c)] = c
        /\ path[w] = path[c] /\ pc[w] = "gen_wait"
        /\ d # c /\ pc[d] = "wait" /\ done[d] = c

\* C8 as claimed: no step of a request for a source of unsupported type
\* changes the Pending Registry or a class queue.
C8_Original ==
    [][ \A c \in Callers :
          ( pc'[c] # pc[c] /\ path'[c] \in Files /\ ~Supported(path'[c]) ) =>
            UNCHANGED <<pendingThumbs, imageThumbnailQueue, movieThumbnailQueue>> ]_vars

\* C9 as claimed: every request for a source of unsupported type ends with
\* the unsupported-type error.
C9_Original ==
    \A c \in Callers :
        ( pc[c] = "done" /\ path[c] \in Files /\ ~Supported(path[c]) ) =>
            result[c] = "unsupported"

C11_Original ==
    /\ \A w \in Workers : loaded[w] # NoChan => loaded[w] \in closed
    /\ \A k \in Keys : pendingThumbs[k] \notin closed

\* C11: removal and firing are two steps.  A worker removes the entry and
\* then fires: meanwhile the entry is absent and the signal unfired, and a
\* caller that arrives finds no entry and starts a fresh one.  The fallback
\* fires and then removes: meanwhile the fired signal is still registered,
\* and a caller that arrives joins it and can be woken at once.  No arrival
\* does both or neither.
C11_CompletionWindows ==
    /\ [](\A w \in Workers : pc[w] = "close" =>
              /\ loaded[w] \notin closed \cup {NoChan}
              /\ \A k \in Keys : pendingThumbs[k] # loaded[w])
    /\ [](\A c \in Callers : pc[c] = "fb_delete" =>
              /\ done[c] \in closed
              /\ pendingThumbs[Key(c)] = done[c])
    /\ [][ \A d \in Callers :
             ( pc[d] = "LoadOrStore" /\ pc'[d] # "LoadOrStore" ) =>
                 /\ ( \E c \in Callers : pc[c] = "fb_delete" /\ Key(c) = Key(d) ) =>
                        /\ pc'[d] = "wait"
                        /\ done'[d] \in closed
                        /\ pendingThumbs' = pendingThumbs
                 /\ ( /\ \E w \in Workers : pc[w] = "close" /\ Key(w) = Key(d)
                      /\ pendingThumbs[Key(d)] = NoChan ) =>
                        /\ pc'[d] = "route"
                        /\ done'[d] = d
                        /\ pendingThumbs'[Key(d)] = d
                 /\ \A w \in Workers : pc[w] = "close" => done'[d] # loaded[w] ]_vars

\* A caller has joined the entry of a fallback whose signal is fired and
\* whose entry is not yet deleted.
C11_Witness ==
    \E c, d \in Callers :
        /\ c # d
        /\ pc[c] = "fb_delete" /\ pendingThumbs[Key(c)] = c /\ c \in closed
        /\ pc[d] = "wait" /\ done[d] = c

\* C12: a channel is closed at most once, by the worker that loaded it or by
\* the fallback caller that made it, and the fallback's Delete removes the
\* entry that caller stored and no other.
C12_FiredAtMostOnce ==
    [][ /\ \A w \in Workers :
             ( pc[w] = "close" /\ pc'[w] # "close" ) =>
                 /\ loaded[w] \notin closed \cup {NoChan}
                 /\ closed' = closed \cup {loaded[w]}
        /\ \A c \in Callers :
             ( pc[c] = "fb_close" /\ pc'[c] = "fb_delete" ) =>
                 /\ done[c] = c
                 /\ c \notin closed
                 /\ closed' = closed \cup {c}
        /\ \A c \in Callers :
             ( pc[c] = "fb_delete" /\ pc'[c] = "done" ) =>
                 /\ pendingThumbs[Key(c)] = c
                 /\ pendingThumbs' = [pendingThumbs EXCEPT ![Key(c)] = NoChan] ]_vars

\* A fallback caller has closed its channel and deleted its entry, and a
\* worker has closed the channel of another caller.
C12_Witness ==
    \E c, d \in Callers :
        /\ c # d /\ {c, d} \subseteq closed
        /\ pc[c] = "done" /\ result[c] = "generr"
        /\ pendingThumbs[Key(c)] = NoChan
        /\ pc[d] = "wait"

\* C13: a thumbnail request issued after a request for the same source has
\* returned success is answered in the handler from the cached file: it
\* returns success at once, the Transcoder is not started again, and the
\* cache, the registry and the queues are left as they were.
C13_SecondServedFromCache ==
    [][ \A c \in Callers :
          ( /\ pc[c] = "idle" /\ pc'[c] # "idle"
            /\ \E d \in Callers :
                 pc[d] = "done" /\ result[d] = "ok" /\ path[d] = path'[c] ) =>
              /\ pc'[c] = "done" /\ result'[c] = "ok"
              /\ getThumbnailPath(path'[c]) \in cache
              /\ invoked[path'[c]] >= 1
              /\ UNCHANGED <<cache, invoked, pendingThumbs, closed,
                             imageThumbnailQueue, movieThumbnailQueue>> ]_vars

\* Two requests for one source, the second issued after the first returned,
\* have both succeeded with a single Transcoder run.
C13_Witness ==
    \E c, d \in Callers :
        /\ c # d /\ late
        /\ path[c] \in Files /\ path[d] = path[c]
        /\ pc[c] = "done" /\ result[c] = "ok"
        /\ pc[d] = "done" /\ result[d] = "ok"
        /\ invoked[path[c]] = 1

\* What a step may do to one class queue: nothing; or a starter's path of
\* that class is added behind the paths already waiting; or the path that
\* has waited longest is removed and handed to one idle worker of the class.
QueueStep(q, qNext, class, workers) ==
    \/ qNext = q
    \/ /\ \E f \in Files : MediaClass(f) = class /\ qNext = Append(q, f)
       /\ \A w \in Workers : path'[w] = path[w]
    \/ /\ q # << >>
       /\ qNext = Tail(q)
       /\ \E w \in workers :
            /\ pc[w] = "dequeue" /\ pc'[w] = "gen_stat"
            /\ path'[w] = Head(q)
            /\ \A v \in Workers \ {w} : path'[v] = path[v]

\* C14: within a class, paths leave the queue in the order they entered it,
\* whatever the number of workers: every step appends at the tail or hands
\* the head to a worker.  The image and the movie queue are ordered
\* independently: no step changes both.
C14_FifoPerClass ==
    [][ /\ QueueStep(imageThumbnailQueue, imageThumbnailQueue', "image", ImageWorkers)
        /\ QueueStep(movieThumbnailQueue, movieThumbnailQueue', "movie", MovieWorkers)
        /\ \/ imageThumbnailQueue' = imageThumbnailQueue
           \/ movieThumbnailQueue' = movieThumbnailQueue ]_vars

\* Two different paths wait in the image queue, one behind the other, while
\* both image workers are free to receive.
C14_Witness ==
    /\ Len(imageThumbnailQueue) = 2
    /\ imageThumbnailQueue[1] # imageThumbnailQueue[2]
    /\ pendingThumbs[getThumbnailPath(imageThumbnailQueue[1])] = <<"caller", 1>>
    /\ pendingThumbs[getThumbnailPath(imageThumbnailQueue[2])] = <<"caller", 2>>
    /\ \A c \in Callers \ {Spare} : pc[c] = "wait"
    /\ \A w \in ImageWorkers : pc[w] = "dequeue"

\* Source paths beyond those of Files: more directories, names that contain
\* a dot, and every pairing of name and extension.
SamplePaths ==
    { [dir |-> d, name |-> n, ext |-> e] :
        d \in { <<"root">>, <<"root", "sub">>, <<"root", ".small">> },
        n \in { <<"photo">>, <<"photo", ".png">>, <<"clip">> },
        e \in { ".jpg", ".png", ".MOV" } }

\* On the sample paths and the sources: the thumbnail lies in the .small
\* directory beside the source, its name is the whole base name followed by
\* .jpg, and different paths get different thumbnail paths.
SamplesInjective ==
    LET paths == SamplePaths \cup Files
    IN  /\ \A p \in paths :
             LET t == getThumbnailPath(p)
             IN  /\ t.dir = p.dir \o <<".small">>
                 /\ t.name \o <<t.ext>> = p.name \o <<p.ext, ".jpg">>
        /\ \A p, q \in paths :
             getThumbnailPath(p) = getThumbnailPath(q) => p = q

\* C15: getThumbnailPath maps <dir>/<name>.<ext> to
\* <dir>/.small/<name>.<ext>.jpg and is injective, so that requests for
\* sources that differ only in their extension hold different registry keys
\* and never wait on one another's channel.
C15_ThumbnailPathInjective ==
    /\ SamplesInjective
    /\ \A c, d \in Callers :
         ( path[c] \in Files /\ path[d] \in Files /\ path[c] # path[d] ) =>
             /\ Key(c) # Key(d)
             /\ done[c] = NoChan \/ done[c] # done[d]

\* Requests for photo.jpg and photo.png are in flight, each the starter of
\* its own registry entry.
C15_Witness ==
    \E c, d \in Callers :
        /\ path[c] \in Files /\ path[d] \in Files
        /\ path[c].dir = path[d].dir /\ path[c].name = path[d].name
        /\ path[c].ext # path[d].ext
        /\ pendingThumbs[Key(c)] = c /\ pendingThumbs[Key(d)] = d

\* The request of c returns in this step, for a source that is gone.
ReturnsForMissing(c) ==
    /\ pc[c] # "done" /\ pc'[c] = "done"
    /\ path'[c] \in Files /\ path'[c] \notin sources

UnderRoot(p) ==
    /\ Len(p.dir) >= Len(rootDir)
    /\ SubSeq(p.dir, 1, Len(rootDir)) = rootDir

\* C17: whichever of the four handlers resolves it, a client path whose
\* cleaned form lies outside the root is answered "Access denied" and nothing
\* else: the path a handler goes on with has no "." or ".." left and lies
\* under the root, and the step that denies a request leaves the registry,
\* the queues, the channels, the cache and the files as they were, whether or
\* not the file asked for exists.
C17_OutsideRootDenied ==
    /\ [](\A c \in Callers :
            LET dir == path[c].dir
            IN  /\ \A i \in 1..Len(dir) : dir[i] \notin {".", ".."}
                /\ ( Len(dir) > 0 /\ ~UnderRoot(path[c]) ) =>
                       ( pc[c] = "done" /\ result[c] = "denied" )
                /\ ( pc[c] = "done" /\ result[c] = "denied" ) => ~UnderRoot(path[c]))
    /\ [][ \A c \in Callers :
             ( pc[c] = "idle" /\ ~UnderRoot(path'[c]) /\ pc'[c] # "idle"
               /\ result'[c] # "badrequest" ) =>
                 /\ result'[c] = "denied"
                 /\ UNCHANGED <<pendingThumbs, imageThumbnailQueue,
                                movieThumbnailQueue, closed, cache, sources,
                                done, invoked, late>> ]_vars

\* A request for a file that exists outside the root has been denied, and a
\* request for a file under the root has been served.
C17_Witness ==
    \E c, d \in Callers :
        /\ pc[c] = "done" /\ result[c] = "denied" /\ path[c] \in OutsideFiles
        /\ pc[d] = "done" /\ result[d] = "static" /\ path[d] \in Files

\* C18: a waiter that leaves its wait on the closed channel returns success
\* exactly when the thumbnail file exists at that moment and the
\* generation-failed error otherwise; the closed channel alone never makes a
\* success.
C18_WakeRechecksCache ==
    [][ \A c \in Callers :
          ( pc[c] = "wait" /\ pc'[c] = "done" /\ result'[c] # "timeout" ) =>
              /\ done[c] \in closed
              /\ result'[c] = IF Key(c) \in cache THEN "ok" ELSE "notfound" ]_vars

\* A waiter was woken after a failed generation, found no thumbnail and
\* returned the generation-failed error.
C18_Witness ==
    \E c \in Callers :
        /\ pc[c] = "done" /\ result[c] = "notfound"
        /\ path[c] \in failed
        /\ Key(c) \notin cache
        /\ c \in closed

\* C19 as claimed: a starter c waits on the channel it made, which bears its
\* name; when c has been woken by that channel and has returned, every
\* joiner of the same channel that is woken later returns what c returned.
C19_Original ==
    [][ \A c, d \in Callers :
          ( /\ c # d
            /\ pc[c] = "done" /\ result[c] \in {"ok", "notfound"} /\ c \in closed
            /\ pc[d] = "wait" /\ done[d] = c
            /\ pc'[d] = "done" /\ result'[d] # "timeout" ) =>
              result'[d] = result[c] ]_vars

\* C20 as claimed: no step inserts a registry entry for a key whose
\* thumbnail is in the cache.
C20_Original ==
    [][ \A k \in Keys :
          ( pendingThumbs[k] = NoChan /\ pendingThumbs'[k] # NoChan ) =>
              k \notin cache ]_vars

\* C20: an entry is inserted only by a caller whose handler check found no
\* thumbnail, but the thumbnail may have been written since; the generation
\* of an entry whose thumbnail is cached returns nil at its existence check
\* without starting the Transcoder or touching the cache, and no Transcoder
\* run is under way for a cached key.
C20_CachedEntryIsHarmless ==
    /\ [](\A p \in Procs :
            pc[p] \in {"gen_run", "gen_wait"} => Key(p) \notin cache)
    /\ [][ /\ \A c \in Callers, k \in Keys :
                ( pendingThumbs[k] # c /\ pendingThumbs'[k] = c ) =>
                    ( pc[c] = "LoadOrStore" /\ pc'[c] = "route" /\ Key(c) = k )
           /\ \A p \in Procs :
                ( pc[p] = "gen_stat" /\ pc'[p] # "gen_stat" /\ Key(p) \in cache ) =>
                    /\ pc'[p] = AfterGenerate(p)
                    /\ err'[p] = "nil"
                    /\ UNCHANGED <<cache, invoked, failed>> ]_vars

\* A request that missed the handler's check has stored an entry and queued
\* its path after the thumbnail was written by the single Transcoder run.
C20_Witness ==
    \E c \in Callers :
        /\ pc[c] = "wait" /\ path[c] \in Files
        /\ pendingThumbs[Key(c)] = c
        /\ Queued(Key(c)) = 1
        /\ Key(c) \in cache
        /\ invoked[path[c]] = 1

\* C21: the cache only grows and a thumbnail is written once: no step removes
\* a thumbnail, and a Transcoder run that ends in success creates the
\* thumbnail of a key that had none, so at most one run per key succeeds.
C21_WrittenOnce ==
    [][ /\ cache \subseteq cache'
        /\ \A p \in Procs :
             ( pc[p] = "gen_wait" /\ pc'[p] # "gen_wait" /\ err'[p] = "nil" ) =>
                 /\ Key(p) \notin cache
                 /\ cache' = cache \cup {Key(p)}
        /\ \A p \in Procs :
             ( pc[p] = "gen_wait" /\ pc'[p] # "gen_wait" /\ err'[p] # "nil" ) =>
                 cache' = cache
        /\ ( \A p \in Procs : pc[p] = "gen_wait" => pc'[p] = "gen_wait" ) =>
               cache' = cache ]_vars

\* A worker has returned from a successful generateThumbnail for a source
\* whose first Transcoder run failed: the thumbnail exists after exactly two
\* runs, and a caller of the same source has been served.
C21_Witness ==
    \E w \in Workers :
        /\ pc[w] = "LoadAndDelete" /\ err[w] = "nil"
        /\ Key(w) \in cache
        /\ path[w] \in failed
        /\ invoked[path[w]] = 2
        /\ \E c \in Callers : path[c] = path[w] /\ pc[c] = "done" /\ result[c] = "ok"

\* The goroutines whose Transcoder call for a source of the class is running.
Running(class) ==
    { p \in Procs : pc[p] = "gen_wait" /\ MediaClass(path[p]) = class }

\* The callers inside the synchronous fallback (547-553) for the class.
InFallback(class) ==
    { c \in Callers : /\ pc[c] \in {"gen_stat", "gen_run", "gen_wait",
                                    "fb_close", "fb_delete"}
                      /\ MediaClass(path[c]) = class }

PoolSize(class) == IF class = "movie" THEN numMovieWorkers ELSE numImageWorkers

Pool(class) == IF class = "movie" THEN MovieWorkers ELSE ImageWorkers

\* C23: a queue holds sources of its class only and a worker generates
\* sources of its pool's class only; whether a starter enqueues or falls back
\* is decided by the length of its own class's queue, whatever the other
\* queue holds and whatever the other pool is doing, and an idle worker can
\* take the head of its non-empty queue in every state.
C23_ClassesIndependent ==
    /\ [] /\ \A i \in 1..Len(imageThumbnailQueue) :
               MediaClass(imageThumbnailQueue[i]) = "image"
          /\ \A i \in 1..Len(movieThumbnailQueue) :
               MediaClass(movieThumbnailQueue[i]) = "movie"
          /\ \A class \in {"image", "movie"} : \A w \in Pool(class) :
               /\ pc[w] # "dequeue" => MediaClass(path[w]) = class
               /\ ( pc[w] = "dequeue" /\ QueueOf(class) # << >> ) =>
                      ENABLED Dequeue(w)
    /\ [][ \A c \in Callers :
             LET class == MediaClass(path[c])
             IN  ( pc[c] = "route" /\ pc'[c] # "route" /\ class # "unsupported" ) =>
                     IF Len(QueueOf(class)) < queueSize
                     THEN /\ pc'[c] = "wait"
                          /\ IF class = "movie"
                             THEN /\ movieThumbnailQueue' =
                                        Append(movieThumbnailQueue, path[c])
                                  /\ imageThumbnailQueue' = imageThumbnailQueue
                             ELSE /\ imageThumbnailQueue' =
                                        Append(imageThumbnailQueue, path[c])
                                  /\ movieThumbnailQueue' = movieThumbnailQueue
                     ELSE /\ pc'[c] = "gen_stat"
                          /\ imageThumbnailQueue' = imageThumbnailQueue
                          /\ movieThumbnailQueue' = movieThumbnailQueue ]_vars

\* The movie queue is full and the movie worker has not taken its head,
\* while an image that was enqueued is in generation on an image worker.
C23_Witness ==
    /\ Len(movieThumbnailQueue) = queueSize
    /\ \E c \in Callers, w \in ImageWorkers :
         /\ pc[c] = "wait" /\ MediaClass(path[c]) = "image"
         /\ path[w] = path[c] /\ pc[w] = "gen_wait"

\* The program points of the synchronous fallback (547-553).
FallbackPcs == {"gen_stat", "gen_run", "gen_wait", "fb_close", "fb_delete"}

\* C24: a caller in synchronous fallback returns from the step after its
\* Delete only, with success when its inline generateThumbnail returned nil
\* and with that generation's error otherwise; at its return its channel is
\* closed and its key has no registry entry, so every caller still waiting on
\* that channel has its receive ready.
C24_FallbackReturnsItsOwnResult ==
    /\ [] \A d \in Callers :
            ( pc[d] = "wait" /\ done[d] \in closed ) => ENABLED Wake(d)
    /\ [][ \A c \in Callers :
             ( pc[c] \in FallbackPcs /\ pc'[c] \notin FallbackPcs ) =>
                 /\ pc[c] = "fb_delete" /\ pc'[c] = "done"
                 /\ err[c] \in {"nil", "err"}
                 /\ result'[c] = IF err[c] = "nil" THEN "ok" ELSE "generr"
                 /\ done[c] = c /\ c \in closed'
                 /\ pendingThumbs'[Key(c)] = NoChan
                 /\ \A d \in Callers :
                      ( pc'[d] = "wait" /\ path'[d] = path[c] /\ done'[d] = c ) =>
                          done'[d] \in closed' ]_vars

\* A caller has returned its inline generation's error from the fallback
\* while a caller that joined during that generation still waits on the
\* channel, now closed, and the key's entry is gone.
C24_Witness ==
    \E c, d \in Callers :
        /\ c # d
        /\ pc[c] = "done" /\ result[c] = "generr"
        /\ pc[d] = "wait" /\ done[d] = c /\ path[d] = path[c]
        /\ c \in closed
        /\ pendingThumbs[Key(d)] = NoChan

\* C25: a thumbnail request whose thumbnail is there at the handler's stat
\* (319) is answered with the file in that step: the caller never enters
\* queueAndWaitForThumbnail, holds no channel, and pendingThumbs, both queues
\* and the cache are as before, whether or not the key has an entry.
C25_CacheHitTouchesNothing ==
    [][ \A c \in Callers :
          ( /\ pc[c] = "idle" /\ pc'[c] # "idle"
            /\ path'[c] \in AllFiles
            /\ getThumbnailPath(path'[c]) \in cache ) =>
              /\ pc'[c] = "done" /\ result'[c] = "ok"
              /\ done'[c] = NoChan
              /\ pendingThumbs' = pendingThumbs
              /\ closed' = closed
              /\ imageThumbnailQueue' = imageThumbnailQueue
              /\ movieThumbnailQueue' = movieThumbnailQueue
              /\ cache' = cache
              /\ invoked' = invoked ]_vars

\* A caller was served from the cache while the key still has its unfired
\* entry: the worker has written the thumbnail and not yet reached
\* LoadAndDelete, and the starter still waits.
C25_Witness ==
    \E c, d \in Callers, w \in Workers :
        /\ c # d /\ path[c] = path[d] /\ path[w] = path[c]
        /\ pc[c] = "done" /\ result[c] = "ok"
        /\ pc[d] = "wait" /\ done[d] = d
        /\ pendingThumbs[Key(d)] = d /\ d \notin closed
        /\ pc[w] = "LoadAndDelete"

\* A request for a source returns success in this step.
ReturnsOk(c) ==
    /\ result[c] # "ok" /\ result'[c] = "ok"
    /\ path'[c] \in AllFiles

\* C26: with a Transcoder whose output appears only when complete, every
\* thumbnail request that returns success does so for a complete thumbnail;
\* a success for a thumbnail that is not complete is returned only with a
\* Transcoder that creates its output before it has finished, for a file in
\* that state.
C26_SuccessMeansComplete ==
    /\ [] ( atomicWrite => partial = {} )
    /\ [][ \A c \in Callers :
             ReturnsOk(c) =>
                 /\ atomicWrite => getThumbnailPath(path'[c]) \in cache'
                 /\ getThumbnailPath(path'[c]) \notin cache' =>
                        ( ~atomicWrite /\ getThumbnailPath(path'[c]) \in partial' ) ]_vars

\* With a Transcoder that creates its output early, a request was answered
\* from the thumbnail while a worker was still writing it.
C26_Witness ==
    \E c \in Callers, w \in Workers :
        /\ ~atomicWrite
        /\ pc[c] = "done" /\ result[c] = "ok"
        /\ pc[w] = "gen_wait" /\ path[w] = path[c]
        /\ Key(c) \in partial /\ Key(c) \notin cache

\* No request is in progress, both queues are empty and all workers are idle.
Quiescent ==
    /\ \A c \in Callers : pc[c] \in {"idle", "done"}
    /\ \A w \in Workers : pc[w] = "dequeue"
    /\ imageThumbnailQueue = << >>
    /\ movieThumbnailQueue = << >>

\* C27 as claimed: every key with a registry entry is queued, held by a
\* worker that has not completed it, or held by its starter on the way to
\* the queue or in the fallback; and the registry is empty whenever nothing
\* is in progress.
C27_Original ==
    /\ \A k \in Keys :
         pendingThumbs[k] # NoChan =>
             ( Queued(k) > 0 \/ OnWorker(k) # {} \/ OnCaller(k) # {} )
    /\ Quiescent => \A k \in Keys : pendingThumbs[k] = NoChan

\* C28: a key whose source waits in a class queue or is held by a worker that
\* has not yet done its LoadAndDelete has a registry entry, the entry's
\* channel is not closed, and it is the channel of the starter that queued
\* the source; so the worker's LoadAndDelete finds an entry.
C28_WorkIsRegistered ==
    /\ \A k \in Keys :
         ( Queued(k) > 0 \/ OnWorker(k) # {} ) =>
             /\ pendingThumbs[k] # NoChan
             /\ pendingThumbs[k] \notin closed
             /\ path[pendingThumbs[k]] \in AllFiles
             /\ getThumbnailPath(path[pendingThumbs[k]]) = k
    /\ \A w \in Workers : pc[w] = "LoadAndDelete" => LoadAndDeleteOk(w)

\* A worker is about to complete a generation whose starter has timed out
\* and returned: nobody waits any more, yet the entry is there and unfired.
C28_Witness ==
    \E w \in Workers, c \in Callers :
        /\ pc[w] = "LoadAndDelete"
        /\ pendingThumbs[Key(w)] = c /\ c \notin closed
        /\ pc[c] = "done" /\ result[c] = "timeout"
        /\ \A d \in Callers : pc[d] # "wait"

\* A directory listing is answered in this step.
Lists(c) == pc[c] = "idle" /\ result'[c] \in {"listed", "listerr"}

\* C29: the files of a listing hold neither the .small directory nor any
\* other entry whose name starts with a dot, and they hold every other entry
\* that was read; the step that answers a listing leaves pendingThumbs, the
\* closed channels, both queues, the thumbnails on disk and the count of
\* Transcoder runs as they were.
C29_ListingHidesDotNames ==
    /\ [] \A c \in Callers :
            /\ \A e \in listing[c].files :
                 e.name \notin { <<".small">>, <<".hidden">> }
            /\ \A e \in listing[c].entries :
                 e.name \notin { <<".small">>, <<".hidden">> } =>
                     FileInfo(e) \in listing[c].files
    /\ [][ \A c \in Callers :
             Lists(c) =>
                 /\ pendingThumbs' = pendingThumbs
                 /\ closed' = closed
                 /\ imageThumbnailQueue' = imageThumbnailQueue
                 /\ movieThumbnailQueue' = movieThumbnailQueue
                 /\ cache' = cache /\ partial' = partial
                 /\ invoked' = invoked
                 /\ \A p \in Procs \ {c} : pc'[p] = pc[p] ]_vars

\* A listing was made of the root while it held the .small directory and a
\* dot file: both were read, neither is among the files, and the image with
\* a thumbnail is listed with its thumbnail URL.
C29_Witness ==
    \E c \in Callers :
        /\ pc[c] = "done" /\ result[c] = "listed"
        /\ \E e \in listing[c].entries : e.name = <<".small">> /\ e.isDir
        /\ \E e \in listing[c].entries : e.name = <<".hidden">>
        /\ \E e \in listing[c].files :
             e.name = <<"photo">> /\ e.ext = ".jpg" /\ e.thumbnail
        /\ \E e \in listing[c].files :
             e.name = <<"notes">> /\ ~e.thumbnail

====
